---- MODULE Spec2Model ----
(***************************************************************************)
(* A model of yakui-miniquad's renderer state (src/src/lib.rs):            *)
(* YakuiMiniquadState::new, paint, update_textures, update_buffers and     *)
(* drop_textures, run against a model of the miniquad rendering context    *)
(* (textures, buffers, the calls issued) and of the yakui PaintDom the     *)
(* adapter is handed every frame.                                          *)
(***************************************************************************)
EXTENDS Integers, Sequences, FiniteSets, TLC

\* ------------------------------------------------------------ bounds
\* Number of texture handles the UI engine hands out during a run.
MaxHandles == 1
\* Largest number of meshes (paint calls) in one frame.
MaxMeshes == 2
\* Number of drop_textures calls a teardown makes at most.
MaxDrops == 2

\* ------------------------------------------------- program constants
\* size_of::<yakui_core::paint::Vertex>(): Vec2 + Vec2 + Vec4 of f32.
VertexSize == 32
\* size_of::<u16>().
IndexSize == 2
\* Number of values of the u16 type the indices and `base` are held in.
U16Range == 65536
\* mesh.texture = None.
NoHandle == 0
\* The pipeline objects made by new(), in creation order.
main_pipeline == 1
text_pipeline == 2

Handles == 1..MaxHandles

VARIABLES
    textures,          \* YakuiMiniquadState.textures: handle -> TextureId
    default_texture,   \* YakuiMiniquadState.default_texture
    vertices,          \* YakuiMiniquadState.vertices: BufferId
    indices,           \* YakuiMiniquadState.indices: BufferId
    layout,            \* YakuiMiniquadState.layout: Bindings
    commands,          \* YakuiMiniquadState.commands: Vec<DrawCommand>
    ctx_textures,      \* the context's textures, by TextureId
    ctx_buffers,       \* the context's buffers, by BufferId
    calls,             \* the context calls issued by the latest operation
    dom,               \* the PaintDom handed to the latest paint call
    removed_ids,       \* handles the UI engine has removed for good
    aborted,           \* a panic has unwound out of the adapter
    op,                \* the latest operation: "new", "paint", "drop_textures"
    removals_logged,   \* history: every removal so far was in an edit log
    max_vertex_bytes,  \* history: largest vertex byte size a frame required
    max_index_bytes,   \* history: largest index byte size a frame required
    has_keyboard_focus, \* YakuiMiniQuad.has_keyboard_focus
    has_mouse_focus,   \* YakuiMiniQuad.has_mouse_focus
    event,             \* the latest event delivered and what became of it
    last_mouse_sunk,   \* history: the engine sank the latest mouse event
    last_key_sunk,     \* history: the engine sank the latest keyboard event
    formats            \* the engine's texture of each handle: its format()

vars == <<textures, default_texture, vertices, indices, layout, commands,
          ctx_textures, ctx_buffers, calls, dom, removed_ids,
          aborted, op, removals_logged, max_vertex_bytes,
          max_index_bytes, has_keyboard_focus, has_mouse_focus, event,
          last_mouse_sunk, last_key_sunk, formats>>

\* The variables of the input side, which painting leaves alone.
input_vars == <<has_keyboard_focus, has_mouse_focus, event,
                last_mouse_sunk, last_key_sunk>>

\* The variables of the renderer, which event handling leaves alone.
render_vars == <<textures, default_texture, vertices, indices, layout,
                 commands, ctx_textures, ctx_buffers, calls, dom, removed_ids,
                 aborted, op, removals_logged, max_vertex_bytes,
                 max_index_bytes, formats>>

\* ------------------------------------------------------------ helpers
Max(a, b) == IF a > b THEN a ELSE b
Min(a, b) == IF a < b THEN a ELSE b

Range(s) == {s[i] : i \in DOMAIN s}

\* HashMap::insert and HashMap::remove on a map held as a function.
MapInsert(m, k, v) == [x \in (DOMAIN m) \cup {k} |-> IF x = k THEN v ELSE m[x]]
MapRemove(m, k) == [x \in (DOMAIN m) \ {k} |-> m[x]]

\* One call on the rendering context, with its integer arguments.
Call(name, args) == [op |-> name, args |-> args]

\* Option<Rect>: None, and Some(Rect::from_pos_size((x, y), (w, h))).
NoClip == [x |-> 0, some |-> FALSE, y |-> 0, w |-> 0, h |-> 0]
Clip(x, y, w, h) == [x |-> x, some |-> TRUE, y |-> y, w |-> w, h |-> h]

\* ------------------------------------------------ the texture mapping
\* The working state of update_textures: the mapping, the context's textures,
\* the calls issued so far, and whether an unwrap() has panicked.
TexState(m, ct, cs) == [textures |-> m, ctx_textures |-> ct, calls |-> cs,
                        panicked |-> FALSE]

\* The TextureId ctx.new_texture_from_data_and_format returns next.
NewTextureId(st) == Len(st.ctx_textures) + 1

\* Mutant: a format with no arm is taken for RGBA8.
resolve_texture_format_Fallback(format) ==
    IF format = "R8" THEN "Alpha" ELSE "RGBA8"

\* resolve_texture_format: the backend's format for the engine's; "panic"
\* when the match falls to the `_` arm.
resolve_texture_format(format) ==
    CASE format = "Rgba8Srgb" -> "RGBA8"
      [] format = "R8" -> "Alpha"
      [] OTHER -> "panic"

\* make_texture: the format is resolved first, which may panic; then a new
\* backend texture of that format holds the data of handle id.
MakeTexture(st, id) ==
    IF resolve_texture_format(formats[id]) = "panic"
    THEN [st EXCEPT !.panicked = TRUE]
    ELSE [st EXCEPT
             !.ctx_textures =
                 Append(@, [format |-> resolve_texture_format(formats[id]),
                            handle |-> id, deletes |-> 0]),
             !.calls = Append(@, Call("new_texture",
                                      <<NewTextureId(st), id>>))]

\* The mapping takes the TextureId make_texture returned; when make_texture
\* panicked there is no value to insert.
InsertMade(st, made, id) ==
    IF made.panicked
    THEN made
    ELSE [made EXCEPT !.textures = MapInsert(@, id, NewTextureId(st))]

\* ctx.delete_texture(t).
DeleteTexture(st, t) ==
    [st EXCEPT !.ctx_textures[t].deletes = @ + 1,
               !.calls = Append(@, Call("delete_texture", <<t>>))]

\* Mutant: update_textures without its lazy creation.
EnsureTexture_Skipped(st, id) == st

\* self.textures.entry(id).or_insert_with(|| make_texture(ctx, texture)),
\* for one (id, texture) of paint.textures().
EnsureTexture(st, id) ==
    IF id \in DOMAIN st.textures
    THEN st
    ELSE InsertMade(st, MakeTexture(st, id), id)

\* The first loop of update_textures, over paint.textures() in arena order;
\* a panic ends it.
RECURSIVE EnsureTextures(_, _, _)
EnsureTextures(st, d, id) ==
    IF id > MaxHandles \/ st.panicked
    THEN st
    ELSE EnsureTextures(IF id \in d.textures THEN EnsureTexture(st, id) ELSE st,
                        d, id + 1)

\* TextureChange::Added: paint.texture(id).unwrap(), then an insert that
\* replaces whatever entry the mapping held.
TextureAdded(st, d, id) ==
    IF id \notin d.textures
    THEN [st EXCEPT !.panicked = TRUE]
    ELSE InsertMade(st, MakeTexture(st, id), id)

\* Mutant: Removed deletes the texture and keeps the mapping entry.
TextureRemoved_EntryKept(st, d, id) ==
    IF id \in DOMAIN st.textures
    THEN DeleteTexture(st, st.textures[id])
    ELSE st

\* Mutant: Removed is ignored.
TextureRemoved_Ignored(st, d, id) == st

\* TextureChange::Removed: the entry leaves the mapping and its texture is
\* deleted.
TextureRemoved(st, d, id) ==
    IF id \in DOMAIN st.textures
    THEN [DeleteTexture(st, st.textures[id]) EXCEPT
             !.textures = MapRemove(@, id)]
    ELSE st

\* Mutant: Modified replaces the backend texture of a mapped handle by a new
\* one.
TextureModified_Recreated(st, d, id) ==
    IF id \in DOMAIN st.textures
    THEN IF id \notin d.textures
         THEN [st EXCEPT !.panicked = TRUE]
         ELSE InsertMade(st, MakeTexture(DeleteTexture(st, st.textures[id]),
                                         id), id)
    ELSE st

\* TextureChange::Modified: the data is uploaded into the existing texture.
TextureModified(st, d, id) ==
    IF id \in DOMAIN st.textures
    THEN IF id \notin d.textures
         THEN [st EXCEPT !.panicked = TRUE]
         ELSE [st EXCEPT !.calls =
                  Append(@, Call("texture_update", <<st.textures[id], id>>))]
    ELSE st

\* The match on one (id, change) of paint.texture_edits().
ApplyEdit(st, d, e) ==
    CASE e.change = "Added" -> TextureAdded(st, d, e.id)
      [] e.change = "Removed" -> TextureRemoved(st, d, e.id)
      [] e.change = "Modified" -> TextureModified(st, d, e.id)

\* The second loop of update_textures; a panic ends it.
RECURSIVE ApplyEdits(_, _, _)
ApplyEdits(st, d, i) ==
    IF i > Len(d.texture_edits) \/ st.panicked
    THEN st
    ELSE ApplyEdits(ApplyEdit(st, d, d.texture_edits[i]), d, i + 1)

\* update_textures.
UpdateTextures(st, d) == ApplyEdits(EnsureTextures(st, d, 1), d, 1)

\* ------------------------------------------------ the draw list compiler
\* A mesh (PaintCall) holds its vertex list as a count: vertex k of the j-th
\* mesh of a frame is the pair <<j, k>>.  The accumulated vertex list is held
\* as its runs, one [mesh, n] per extend().
VertexCount(runs) ==
    LET RECURSIVE Sum(_)
        Sum(i) == IF i = 0 THEN 0 ELSE runs[i].n + Sum(i - 1)
    IN Sum(Len(runs))

\* draw_vertices[g], for g in 0 .. VertexCount(runs) - 1.
VertexAt(runs, g) ==
    LET RECURSIVE Find(_, _)
        Find(i, rest) == IF rest < runs[i].n
                         THEN <<runs[i].mesh, rest>>
                         ELSE Find(i + 1, rest - runs[i].n)
    IN Find(1, g)

\* Mutant: a cast that saturates at the largest u16 instead of truncating.
BaseOf_Saturated(len) == IF len >= U16Range THEN U16Range - 1 ELSE len

\* `draw_vertices.len() as u16`: the cast keeps the low 16 bits.
BaseOf(len) == len % U16Range

\* Mutant: the index copied without the shift by base.
RewriteIndex_Unshifted(base, index) == index % U16Range

\* `base + index` on u16, as the release profile computes it (wrapping).
RewriteIndex(base, index) == (base + index) % U16Range

\* `base + index` exceeds u16: the debug profile panics here.
IndexOverflows(base, index) == base + index >= U16Range

\* Mutant: every command takes the default texture.
ResolveTexture_Default(m, dflt, handle) == dflt

\* mesh.texture.and_then(|index| self.textures.get(&index)), then
\* *texture.unwrap_or(&self.default_texture).
ResolveTexture(m, dflt, handle) ==
    IF handle # NoHandle /\ handle \in DOMAIN m THEN m[handle] ELSE dflt

\* The accumulators of update_buffers before the first mesh.
CompileStart == [panicked |-> FALSE, len |-> 0, draw_vertices |-> <<>>,
                 draw_indices |-> <<>>, draw_commands |-> <<>>]

\* Mutant: every command's index range starts at 0.
CompileMesh_RangesFromZero(cs, mesh, j, m, dflt, checks) ==
    LET base == BaseOf(cs.len)
        rewritten == [i \in 1..Len(mesh.indices) |->
                         RewriteIndex(base, mesh.indices[i])]
        start == 0
        end == start + Len(rewritten)
    IN IF checks /\ \E i \in 1..Len(mesh.indices) :
                        IndexOverflows(base, mesh.indices[i])
       THEN [cs EXCEPT !.panicked = TRUE]
       ELSE [panicked |-> FALSE,
             len |-> cs.len + mesh.vertices,
             draw_vertices |-> Append(cs.draw_vertices,
                                      [n |-> mesh.vertices, mesh |-> j]),
             draw_indices |-> cs.draw_indices \o rewritten,
             draw_commands |-> Append(cs.draw_commands,
                 [index_range |-> [start |-> start, end |-> end],
                  texture |-> ResolveTexture(m, dflt, mesh.texture),
                  pipeline |-> mesh.pipeline,
                  clip |-> mesh.clip])]

\* The body of `for mesh in commands`, for the j-th mesh.
CompileMesh(cs, mesh, j, m, dflt, checks) ==
    LET base == BaseOf(cs.len)
        rewritten == [i \in 1..Len(mesh.indices) |->
                         RewriteIndex(base, mesh.indices[i])]
        start == Len(cs.draw_indices)
        end == start + Len(rewritten)
    IN IF checks /\ \E i \in 1..Len(mesh.indices) :
                        IndexOverflows(base, mesh.indices[i])
       THEN [cs EXCEPT !.panicked = TRUE]
       ELSE [panicked |-> FALSE,
             len |-> cs.len + mesh.vertices,
             draw_vertices |-> Append(cs.draw_vertices,
                                      [n |-> mesh.vertices, mesh |-> j]),
             draw_indices |-> cs.draw_indices \o rewritten,
             draw_commands |-> Append(cs.draw_commands,
                 [index_range |-> [start |-> start, end |-> end],
                  texture |-> ResolveTexture(m, dflt, mesh.texture),
                  pipeline |-> mesh.pipeline,
                  clip |-> mesh.clip])]

\* The loop of update_buffers over paint.calls(); a panic ends it.
RECURSIVE CompileMeshes(_, _, _, _, _, _)
CompileMeshes(cs, meshes, j, m, dflt, checks) ==
    IF j > Len(meshes) \/ cs.panicked
    THEN cs
    ELSE CompileMeshes(CompileMesh(cs, meshes[j], j, m, dflt, checks),
                       meshes, j + 1, m, dflt, checks)

Compile(meshes, m, dflt, checks) ==
    CompileMeshes(CompileStart, meshes, 1, m, dflt, checks)

\* The byte sizes update_buffers compares with the buffers' sizes.
VertexBytes(cs) == cs.len * VertexSize
IndexBytes(cs) == Len(cs.draw_indices) * IndexSize

\* Mutant: the buffers are recreated every frame.
NeedsRealloc_Always(size, needed) == TRUE

\* Mutant: the buffers never grow.
NeedsRealloc_Never(size, needed) == FALSE

\* Mutant: a buffer is also recreated when the data fills it exactly.
NeedsRealloc_WhenFull(size, needed) == size <= needed

\* `ctx.buffer_size(buffer) < size_of_data_in_bytes`.
NeedsRealloc(size, needed) == size < needed

\* BufferSource::empty::<T>(count): count elements of elem_size bytes each.
EmptyBufferSize(count, elem_size) == count * elem_size

\* The working state of the uploads: the context's buffers and the calls.
\* One check-then-grow-then-upload block of update_buffers, for the buffer id
\* `buf` of kind `kind`; `now` is the id the adapter holds afterwards.
UploadBuffer(bs, buf, kind, needed, elem_size, data) ==
    IF NeedsRealloc(bs.ctx_buffers[buf].size, needed)
    THEN LET new == Len(bs.ctx_buffers) + 1
         IN [ctx_buffers |->
                 Append([bs.ctx_buffers EXCEPT ![buf].live = FALSE,
                                               ![buf].size = 0,
                                               ![buf].data = <<>>],
                        [size |-> EmptyBufferSize(needed, elem_size),
                         kind |-> kind,
                         data |-> data, live |-> TRUE]),
             calls |-> bs.calls \o
                 <<Call("delete_buffer", <<buf>>),
                   Call("new_buffer",
                        <<new, EmptyBufferSize(needed, elem_size)>>),
                   Call("buffer_update", <<new>>)>>,
             now |-> new]
    ELSE [ctx_buffers |-> [bs.ctx_buffers EXCEPT ![buf].data = data],
          calls |-> Append(bs.calls, Call("buffer_update", <<buf>>)),
          now |-> buf]

\* ------------------------------------------------------- the submitter
\* Vec2::as_uvec2 on one coordinate: the f32 -> u32 cast saturates at 0.
\* Coordinates are whole numbers here.
AsU32(v) == IF v < 0 THEN 0 ELSE v

\* u32::saturating_sub.
SaturatingSub(a, b) == IF a > b THEN a - b ELSE 0

\* Mutant: the scissor takes the clip's size without clamping it.
ScissorOf_Unclamped(rect, surface) ==
    [x |-> AsU32(rect.x), y |-> AsU32(rect.y),
     w |-> AsU32(rect.w), h |-> AsU32(rect.h)]

\* The scissor computed for Some(rect) against the surface: its position and
\* the size left after clamping pos + size to the surface.
ScissorOf(rect, surface) ==
    LET px == AsU32(rect.x)
        py == AsU32(rect.y)
        maxx == Min(px + AsU32(rect.w), surface.x)
        maxy == Min(py + AsU32(rect.h), surface.y)
    IN [x |-> px, y |-> py,
        w |-> SaturatingSub(maxx, px), h |-> SaturatingSub(maxy, py)]

\* `pos.x > surface.x || pos.y > surface.y || size.x == 0 || size.y == 0`.
ScissorInvalid(sc, surface) ==
    sc.x > surface.x \/ sc.y > surface.y \/ sc.w = 0 \/ sc.h = 0

\* Mutant: the clip counts as changed for every command.
ClipChanged_Always(clip, last_clip) == TRUE

\* `command.clip != last_clip`.
ClipChanged(clip, last_clip) == clip # last_clip

\* Mutant: a selector with no arm takes the main pipeline.
PipelineOf_Fallback(pipeline) ==
    IF pipeline = "Text" THEN text_pipeline ELSE main_pipeline

\* The pipeline object of a selector; 0 when the match has no arm for it.
PipelineOf(pipeline) ==
    CASE pipeline = "Main" -> main_pipeline
      [] pipeline = "Text" -> text_pipeline
      [] OTHER -> 0

\* Mutant: every draw binds the layout's buffers and the default texture.
DrawCalls_Unbound(command, vbuf, ibuf) ==
    <<Call("apply_bindings", <<vbuf, ibuf, default_texture>>),
      Call("draw", <<command.index_range.start,
                     command.index_range.end - command.index_range.start, 1>>)>>

\* apply_bindings and draw for one command.
DrawCalls(command, vbuf, ibuf) ==
    <<Call("apply_bindings", <<vbuf, ibuf, command.texture>>),
      Call("draw", <<command.index_range.start,
                     command.index_range.end - command.index_range.start, 1>>)>>

\* Mutant: the pipeline is applied only when it differs from the one last
\* applied in the frame.
SubmitCommand_PipelineCached(ss, command, surface, vbuf, ibuf) ==
    IF PipelineOf(command.pipeline) = 0
    THEN ss
    ELSE LET applied == {k \in DOMAIN ss.calls :
                                ss.calls[k].op = "apply_pipeline"}
             piped ==
                 IF /\ applied # {}
                    /\ \E k \in applied :
                           /\ \A q \in applied : q <= k
                           /\ ss.calls[k].args
                                  = <<PipelineOf(command.pipeline)>>
                 THEN ss.calls
                 ELSE Append(ss.calls,
                     Call("apply_pipeline", <<PipelineOf(command.pipeline)>>))
         IN IF ClipChanged(command.clip, ss.last_clip)
            THEN IF command.clip.some
                 THEN LET sc == ScissorOf(command.clip, surface)
                      IN IF ScissorInvalid(sc, surface)
                         THEN [calls |-> piped, last_clip |-> command.clip]
                         ELSE [calls |-> Append(piped,
                                   Call("apply_scissor_rect",
                                        <<sc.x, sc.y, sc.w, sc.h>>))
                                   \o DrawCalls(command, vbuf, ibuf),
                               last_clip |-> command.clip]
                 ELSE [calls |-> Append(piped,
                           Call("apply_scissor_rect",
                                <<0, 0, surface.x, surface.y>>))
                           \o DrawCalls(command, vbuf, ibuf),
                       last_clip |-> command.clip]
            ELSE [calls |-> piped \o DrawCalls(command, vbuf, ibuf),
                  last_clip |-> ss.last_clip]

\* The body of `for command in &self.commands`: ss holds last_clip and the
\* calls issued so far.
SubmitCommand(ss, command, surface, vbuf, ibuf) ==
    IF PipelineOf(command.pipeline) = 0
    THEN ss
    ELSE LET piped == Append(ss.calls,
                 Call("apply_pipeline", <<PipelineOf(command.pipeline)>>))
         IN IF ClipChanged(command.clip, ss.last_clip)
            THEN IF command.clip.some
                 THEN LET sc == ScissorOf(command.clip, surface)
                      IN IF ScissorInvalid(sc, surface)
                         THEN [calls |-> piped, last_clip |-> command.clip]
                         ELSE [calls |-> Append(piped,
                                   Call("apply_scissor_rect",
                                        <<sc.x, sc.y, sc.w, sc.h>>))
                                   \o DrawCalls(command, vbuf, ibuf),
                               last_clip |-> command.clip]
                 ELSE [calls |-> Append(piped,
                           Call("apply_scissor_rect",
                                <<0, 0, surface.x, surface.y>>))
                           \o DrawCalls(command, vbuf, ibuf),
                       last_clip |-> command.clip]
            ELSE [calls |-> piped \o DrawCalls(command, vbuf, ibuf),
                  last_clip |-> ss.last_clip]

\* `let mut last_clip = None;`
SubmitStart(cs) == [calls |-> cs, last_clip |-> NoClip]

\* The submission loop of paint.
RECURSIVE SubmitCommands(_, _, _, _, _, _)
SubmitCommands(ss, cmds, i, surface, vbuf, ibuf) ==
    IF i > Len(cmds)
    THEN ss
    ELSE SubmitCommands(SubmitCommand(ss, cmds[i], surface, vbuf, ibuf),
                        cmds, i + 1, surface, vbuf, ibuf)

\* --------------------------------------------------------------- paint
\* Mutant: update_buffers without its self.commands.clear().
ClearCommands_Kept(cmds) == cmds

\* self.commands.clear() at the head of update_buffers.
ClearCommands(cmds) == <<>>

\* update_buffers after its loop: the two uploads, then
\* self.commands.extend(draw_commands).
UploadBuffers(cs, cmds, ctxb, vbuf, ibuf, lay, issued) ==
    LET v == UploadBuffer([ctx_buffers |-> ctxb, calls |-> issued], vbuf,
                          "VertexBuffer", VertexBytes(cs), VertexSize,
                          cs.draw_vertices)
        i == UploadBuffer([ctx_buffers |-> v.ctx_buffers, calls |-> v.calls],
                          ibuf, "IndexBuffer", IndexBytes(cs), IndexSize,
                          cs.draw_indices)
    IN [vertices |-> v.now, indices |-> i.now,
        layout |-> [vertex_buffers |->
                        IF v.now # vbuf THEN <<v.now>> ELSE lay.vertex_buffers,
                    index_buffer |->
                        IF i.now # ibuf THEN i.now ELSE lay.index_buffer],
        commands |-> ClearCommands(cmds) \o cs.draw_commands,
        ctx_buffers |-> i.ctx_buffers, calls |-> i.calls]

\* ------------------------------------------------------- the UI engine
\* The ids an edit log reports with the given change.
Edited(edits, change) ==
    {edits[i].id : i \in {k \in DOMAIN edits : edits[k].change = change}}

\* What the texture registry and its edit log can be when the next paint call
\* reads them.  The log holds one change per id and a handle is never handed
\* out again after its removal, so per handle: Added is logged only for a
\* handle that is new and still registered, Removed only for one that was
\* not removed before and is no longer registered, Modified for any handle
\* that exists or existed.  A texture registered or removed while no frame
\* was open is in no log ("None").
ChangesOf(h, reg) ==
    {"None"}
    \cup (IF h \in reg /\ h \notin dom.textures THEN {"Added"} ELSE {})
    \cup (IF h \notin reg /\ h \notin removed_ids THEN {"Removed"} ELSE {})
    \cup (IF h \in reg \cup dom.textures \cup removed_ids
          THEN {"Modified"} ELSE {})

\* The registries the engine can hold next: no removed handle comes back.
Registries == SUBSET (Handles \ removed_ids)

\* The edit logs for the registry reg: a change per edited handle, the
\* handles in the order the log's HashMap happens to iterate them.
EditLogs(reg) ==
    UNION {
        { [i \in 1..Len(order) |-> [id |-> order[i], change |-> a[order[i]]]] :
            order \in { o \in [1..Cardinality({h \in Handles : a[h] # "None"})
                               -> {h \in Handles : a[h] # "None"}] :
                          \A i, k \in DOMAIN o : o[i] = o[k] => i = k } } :
        a \in { f \in [Handles -> {"None", "Added", "Removed", "Modified"}] :
                  \A h \in Handles : f[h] \in ChangesOf(h, reg) } }

\* The handles gone from the registry once the engine has produced d.
RemovedAfter(d) ==
    removed_ids \cup (dom.textures \ d.textures)
                \cup Edited(d.texture_edits, "Removed")

\* What the engine's state and the build leave as they are, and the history
\* a paint call on d records.
PaintFrame(d) ==
    /\ dom' = d
    /\ removed_ids' = RemovedAfter(d)
    /\ removals_logged' =
           (removals_logged /\
            (dom.textures \ d.textures) \subseteq Edited(d.texture_edits, "Removed"))
    /\ op' = "paint"
    /\ UNCHANGED <<default_texture, input_vars, formats>>

\* Mutant: paint returns on an empty frame before update_textures.
PaintTexturesOnly_Skipped(t) ==
    /\ calls' = <<>>
    /\ aborted' = FALSE
    /\ UNCHANGED <<textures, ctx_textures, ctx_buffers, vertices, indices,
                   layout, commands, max_vertex_bytes, max_index_bytes>>

\* paint returns before update_buffers (no mesh), or update_textures panics.
PaintTexturesOnly(t) ==
    /\ textures' = t.textures
    /\ ctx_textures' = t.ctx_textures
    /\ calls' = t.calls
    /\ aborted' = t.panicked
    /\ UNCHANGED <<ctx_buffers, vertices, indices, layout, commands,
                   max_vertex_bytes, max_index_bytes>>

\* update_buffers panics in its loop, after self.commands.clear().
PaintCompilePanics(t) ==
    /\ textures' = t.textures
    /\ ctx_textures' = t.ctx_textures
    /\ calls' = t.calls
    /\ commands' = ClearCommands(commands)
    /\ aborted' = TRUE
    /\ UNCHANGED <<ctx_buffers, vertices, indices, layout,
                   max_vertex_bytes, max_index_bytes>>

\* The whole of paint: update_textures, update_buffers, the submission loop.
PaintAll(d, t, cs) ==
    \E u \in {UploadBuffers(cs, commands, ctx_buffers, vertices, indices,
                            layout, t.calls)} :
    \E ss \in {SubmitCommands(SubmitStart(u.calls), u.commands, 1,
                              d.surface_size, u.vertices, u.indices)} :
        /\ textures' = t.textures
        /\ ctx_textures' = t.ctx_textures
        /\ ctx_buffers' = u.ctx_buffers
        /\ vertices' = u.vertices
        /\ indices' = u.indices
        /\ layout' = u.layout
        /\ commands' = u.commands
        /\ calls' = ss.calls
        /\ aborted' = FALSE
        /\ max_vertex_bytes' = Max(max_vertex_bytes, VertexBytes(cs))
        /\ max_index_bytes' = Max(max_index_bytes, IndexBytes(cs))

\* paint(ctx, state) as a step: the engine hands over the PaintDom d that
\* state.paint() returns, and paint runs on it until it returns or panics.
\* Whether `base + index` panics on overflow or wraps is the build profile's
\* choice (overflow-checks), taken here where it shows.
Paint(d) ==
    /\ ~aborted
    /\ PaintFrame(d)
    /\ \E t \in {UpdateTextures(TexState(textures, ctx_textures, <<>>), d)} :
          IF t.panicked \/ d.calls = <<>>
          THEN PaintTexturesOnly(t)
          ELSE \E cs \in {Compile(d.calls, t.textures, default_texture,
                                  checks) : checks \in BOOLEAN} :
                  IF cs.panicked
                  THEN PaintCompilePanics(t)
                  ELSE PaintAll(d, t, cs)

\* ------------------------------------------------------- drop_textures
\* The orders in which a HashMap can iterate the keys S.
Orders(S) ==
    {o \in [1..Cardinality(S) -> S] : \A i, k \in DOMAIN o : o[i] = o[k] => i = k}

\* Mutant: drop_textures deletes the default texture as well.
RECURSIVE DeleteTextures_WithDefault(_, _, _)
DeleteTextures_WithDefault(st, order, i) ==
    IF i > Len(order)
    THEN DeleteTexture(st, default_texture)
    ELSE DeleteTextures_WithDefault(
             DeleteTexture(st, st.textures[order[i]]), order, i + 1)

\* `for (_, texture) in &self.textures { ctx.delete_texture(*texture) }` from
\* the key at position i of the iteration order on.
RECURSIVE DeleteTextures(_, _, _)
DeleteTextures(st, order, i) ==
    IF i > Len(order)
    THEN st
    ELSE DeleteTextures(DeleteTexture(st, st.textures[order[i]]), order, i + 1)

\* drop_textures(ctx): every texture of the mapping is deleted and the
\* mapping keeps its entries.  It is public and is what the owned handler's
\* Drop calls, also when a panic unwinds.
DropTextures ==
    /\ \A h \in DOMAIN textures : ctx_textures[textures[h]].deletes < MaxDrops
    /\ \E order \in Orders(DOMAIN textures) :
       \E t \in {DeleteTextures(TexState(textures, ctx_textures, <<>>),
                                order, 1)} :
           /\ ctx_textures' = t.ctx_textures
           /\ calls' = t.calls
    /\ op' = "drop_textures"
    /\ UNCHANGED <<textures, default_texture, vertices, indices, layout,
                   commands, ctx_buffers, dom, removed_ids, aborted,
                   removals_logged, max_vertex_bytes, max_index_bytes,
                   input_vars, formats>>

\* ------------------------------------------------------ event handlers
\* No event was delivered yet.
NoEvent == [handler |-> "none", arg |-> "none", forwarded |-> "none",
            sunk |-> FALSE]

\* The event a handler was called with, the yakui event it was turned into
\* ("none" when the handler did not call handle_event) and handle_event's
\* answer.
Delivered(handler, arg, forwarded, sunk) ==
    [handler |-> handler, arg |-> arg, forwarded |-> forwarded, sunk |-> sunk]

\* What Yakui::handle_event can return for an event: whether the engine sank
\* it.  No call, no answer.
Answers(forwarded) == IF forwarded = "none" THEN {FALSE} ELSE BOOLEAN

\* miniquad_mouse_button_to_yakui.
miniquad_mouse_button_to_yakui(button) ==
    CASE button = "Left" -> "One"
      [] button = "Middle" -> "Two"
      [] button = "Right" -> "Three"
      [] button = "Unknown" -> "none"

\* miniquad_key_to_yakui, on the key codes of KeyCodes.
miniquad_key_to_yakui(key) ==
    CASE key = "Space" -> "Space"
      [] key = "A" -> "KeyA"
      [] key = "B" -> "KeyB"
      [] key = "C" -> "KeyC"
      [] key = "D" -> "KeyD"
      [] key = "E" -> "KeyE"
      [] key = "F" -> "KeyF"
      [] key = "G" -> "KeyG"
      [] key = "H" -> "KeyH"
      [] key = "I" -> "KeyI"
      [] key = "J" -> "KeyJ"
      [] key = "K" -> "KeyK"
      [] key = "L" -> "KeyL"
      [] key = "M" -> "KeyM"
      [] key = "N" -> "KeyN"
      [] key = "O" -> "KeyO"
      [] key = "P" -> "KeyP"
      [] key = "Q" -> "KeyQ"
      [] key = "R" -> "KeyR"
      [] key = "S" -> "KeyR"
      [] key = "T" -> "KeyT"
      [] key = "U" -> "KeyU"
      [] key = "V" -> "KeyV"
      [] key = "W" -> "KeyW"
      [] key = "X" -> "KeyX"
      [] key = "Y" -> "KeyY"
      [] key = "Z" -> "KeyZ"
      [] key = "World1" -> "none"
      [] key = "F25" -> "none"
      [] key = "Unknown" -> "none"

\* The unicode private use area '\u{E000}'..='\u{F8FF}' that char_event
\* skips.
PrivateUseFirst == 57344
PrivateUseLast == 63743
PrivateUse(character) ==
    PrivateUseFirst <= character /\ character <= PrivateUseLast

\* The inputs the handlers are called with.
MouseButtons == {"Left", "Middle", "Right", "Unknown"}
LetterKeys ==
    {"A", "B", "C", "D", "E", "F", "G", "H", "I", "J", "K", "L", "M",
     "N", "O", "P", "Q", "R", "S", "T", "U", "V", "W", "X", "Y", "Z"}
KeyCodes == LetterKeys \cup {"Space", "World1", "F25", "Unknown"}
Characters == {97, PrivateUseFirst, PrivateUseLast, PrivateUseLast + 1}

\* resize_event: the engine is told of the viewport, its answer is dropped.
ResizeEvent ==
    \E sunk \in Answers("ViewportChanged") :
        /\ event' = Delivered("resize_event", "none", "ViewportChanged", sunk)
        /\ UNCHANGED <<has_keyboard_focus, has_mouse_focus, last_mouse_sunk,
                       last_key_sunk, render_vars>>

\* mouse_motion_event: the engine is told of the cursor, its answer is
\* dropped.
MouseMotionEvent ==
    \E sunk \in Answers("CursorMoved") :
        /\ event' = Delivered("mouse_motion_event", "none", "CursorMoved", sunk)
        /\ last_mouse_sunk' = sunk
        /\ UNCHANGED <<has_keyboard_focus, has_mouse_focus, last_key_sunk,
                       render_vars>>

\* mouse_wheel_event.
MouseWheelEvent ==
    \E sunk \in Answers("MouseScroll") :
        /\ event' = Delivered("mouse_wheel_event", "none", "MouseScroll", sunk)
        /\ has_mouse_focus' = sunk
        /\ last_mouse_sunk' = sunk
        /\ UNCHANGED <<has_keyboard_focus, last_key_sunk, render_vars>>

\* mouse_button_down_event and mouse_button_up_event: a button with no yakui
\* counterpart is not passed on.
MouseButtonEvent(handler, button) ==
    \E forwarded \in {miniquad_mouse_button_to_yakui(button)} :
    \E sunk \in Answers(forwarded) :
        /\ event' = Delivered(handler, button, forwarded, sunk)
        /\ has_mouse_focus' =
               IF forwarded # "none" THEN sunk ELSE has_mouse_focus
        /\ last_mouse_sunk' = sunk
        /\ UNCHANGED <<has_keyboard_focus, last_key_sunk, render_vars>>

MouseButtonDownEvent ==
    \E button \in MouseButtons :
        MouseButtonEvent("mouse_button_down_event", button)

MouseButtonUpEvent ==
    \E button \in MouseButtons :
        MouseButtonEvent("mouse_button_up_event", button)

\* char_event: a character of the private use area is not passed on.
CharEvent ==
    \E character \in Characters :
    \E forwarded \in {IF PrivateUse(character) THEN "none" ELSE "TextInput"} :
    \E sunk \in Answers(forwarded) :
        /\ event' = Delivered("char_event", character, forwarded, sunk)
        /\ has_keyboard_focus' =
               IF forwarded # "none" THEN sunk ELSE has_keyboard_focus
        /\ last_key_sunk' = sunk
        /\ UNCHANGED <<has_mouse_focus, last_mouse_sunk, render_vars>>

\* key_down_event and key_up_event: a key code with no yakui counterpart is
\* not passed on.
KeyEvent(handler, keycode) ==
    \E forwarded \in {miniquad_key_to_yakui(keycode)} :
    \E sunk \in Answers(forwarded) :
        /\ event' = Delivered(handler, keycode, forwarded, sunk)
        /\ has_keyboard_focus' =
               IF forwarded # "none" THEN sunk ELSE has_keyboard_focus
        /\ last_key_sunk' = sunk
        /\ UNCHANGED <<has_mouse_focus, last_mouse_sunk, render_vars>>

KeyDownEvent == \E keycode \in KeyCodes : KeyEvent("key_down_event", keycode)

KeyUpEvent == \E keycode \in KeyCodes : KeyEvent("key_up_event", keycode)

\* ----------------------------------------------------------------- new
\* YakuiMiniquadState::new: the layout's two buffers, the default texture,
\* then the vertex and the index buffer, each of one element; no texture in
\* the mapping and no command.  The engine starts with an empty registry.
Init ==
    /\ textures = <<>>
    /\ default_texture = 1
    /\ ctx_textures = <<[format |-> "RGBA8", handle |-> NoHandle,
                          deletes |-> 0]>>
    /\ ctx_buffers =
        <<[size |-> EmptyBufferSize(1, VertexSize), kind |-> "VertexBuffer",
           data |-> <<>>, live |-> TRUE],
          [size |-> EmptyBufferSize(1, IndexSize), kind |-> "IndexBuffer",
           data |-> <<>>, live |-> TRUE],
          [size |-> EmptyBufferSize(1, VertexSize), kind |-> "VertexBuffer",
           data |-> <<>>, live |-> TRUE],
          [size |-> EmptyBufferSize(1, IndexSize), kind |-> "IndexBuffer",
           data |-> <<>>, live |-> TRUE]>>
    /\ layout = [vertex_buffers |-> <<1>>, index_buffer |-> 2]
    /\ vertices = 3
    /\ indices = 4
    /\ commands = <<>>
    /\ calls = <<>>
    /\ dom = [textures |-> {}, calls |-> <<>>, texture_edits |-> <<>>,
              surface_size |-> [x |-> 0, y |-> 0]]
    /\ removed_ids = {}
    /\ aborted = FALSE
    /\ op = "new"
    /\ removals_logged = TRUE
    /\ max_vertex_bytes = 0
    /\ max_index_bytes = 0
    /\ has_keyboard_focus = FALSE
    /\ has_mouse_focus = FALSE
    /\ event = NoEvent
    /\ last_mouse_sunk = FALSE
    /\ last_key_sunk = FALSE
    /\ formats = [h \in Handles |-> "Rgba8Srgb"]

\* ------------------------------------------------------ specifications
\* All sequences over S of length at most n.
SeqsUpTo(S, n) == UNION {[1..k -> S] : k \in 0..n}

\* The surface the frames are painted on.
Surface == [x |-> 800, y |-> 600]

\* A mesh: its vertex count, local indices, texture handle, pipeline, clip.
Mesh(n, idx, handle, pipeline, clip) ==
    [vertices |-> n, indices |-> idx, texture |-> handle,
     pipeline |-> pipeline, clip |-> clip]

\* One triangle.
Triangle(handle, pipeline, clip) == Mesh(3, <<0, 1, 2>>, handle, pipeline, clip)

\* A PaintDom with the registry and edit log unchanged and empty.
QuietDom(frame) ==
    [textures |-> dom.textures, calls |-> frame, texture_edits |-> <<>>,
     surface_size |-> Surface]

\* Frames of at most one triangle, textured or not, with the registry and
\* its edit log changing between paint calls.
TextureFrames ==
    {<<>>} \cup {<<Triangle(h, "Main", NoClip)>> : h \in {NoHandle} \cup Handles}

PaintTextures ==
    \E frame \in TextureFrames, reg \in Registries :
        \E edits \in EditLogs(reg) :
            Paint([textures |-> reg, calls |-> frame, texture_edits |-> edits,
                   surface_size |-> Surface])

SpecTextures == Init /\ [][PaintTextures]_vars

\* Frames of a quad and of a mesh that fills the u16 index range but for the
\* quad's four vertices: the two together fit it exactly, two of the large
\* meshes leave it.
BufferMeshes ==
    {Mesh(4, <<0, 1, 2, 2, 1, 3>>, NoHandle, "Main", NoClip),
     Mesh(U16Range - 4, <<0, U16Range - 5>>, NoHandle, "Main", NoClip)}

PaintBuffers ==
    \E frame \in SeqsUpTo(BufferMeshes, MaxMeshes) : Paint(QuietDom(frame))

SpecBuffers == Init /\ [][PaintBuffers]_vars

\* Frames whose vertex count passes the 16-bit range before the last mesh,
\* with sums `base + index` that fit 16 bits and sums that do not.
OverflowMeshes ==
    {Mesh(4, <<0, 1, 2, 2, 1, 3>>, NoHandle, "Main", NoClip),
     Mesh(2 * U16Range - 2, <<0, 1>>, NoHandle, "Main", NoClip)}

PaintOverflow ==
    \E frame \in SeqsUpTo(OverflowMeshes, MaxMeshes) : Paint(QuietDom(frame))

SpecOverflow == Init /\ [][PaintOverflow]_vars

\* Frames of triangles of every pipeline selector and of clip rectangles
\* inside, across and outside the surface; the text triangle is textured.
SubmitMeshes ==
    {Triangle(NoHandle, "Main", NoClip),
     Triangle(1, "Text", NoClip),
     Triangle(NoHandle, "Main", Clip(10, 20, 100, 50)),
     Triangle(NoHandle, "Main", Clip(700, 500, 200, 200)),
     Triangle(NoHandle, "Main", Clip(900, 100, 50, 50)),
     Triangle(NoHandle, "Other", Clip(700, 500, 200, 200))}

\* A PaintDom whose registry holds every handle, with an empty edit log.
SubmitDom(frame) ==
    [textures |-> Handles, calls |-> frame, texture_edits |-> <<>>,
     surface_size |-> Surface]

PaintSubmit ==
    \E frame \in SeqsUpTo(SubmitMeshes, MaxMeshes) : Paint(SubmitDom(frame))

SpecSubmit == Init /\ [][PaintSubmit]_vars

\* Paint calls as in the texture specification, then the teardown: the
\* adapter is not painted with once its textures were dropped.
PaintBeforeDrop == op # "drop_textures" /\ PaintTextures

SpecTeardown == Init /\ [][PaintBeforeDrop \/ DropTextures]_vars

\* Paint calls and drop_textures calls in any order: drop_textures is public
\* and leaves the adapter usable.
SpecLifetime == Init /\ [][PaintTextures \/ DropTextures]_vars

\* Frames of triangles with clip rectangles that cross the left and the top
\* edge of the surface, lie off its left edge, or cross its far corner.
ClipMeshes ==
    {Triangle(NoHandle, "Main", NoClip),
     Triangle(NoHandle, "Main", Clip(-50, 10, 100, 50)),
     Triangle(NoHandle, "Main", Clip(10, -20, 100, 50)),
     Triangle(NoHandle, "Text", Clip(-50, -20, 100, 50)),
     Triangle(NoHandle, "Main", Clip(-200, 10, 100, 50)),
     Triangle(NoHandle, "Main", Clip(700, 500, 200, 200))}

PaintClip ==
    \E frame \in SeqsUpTo(ClipMeshes, MaxMeshes) : Paint(QuietDom(frame))

SpecClip == Init /\ [][PaintClip]_vars

\* The pixel formats of the engine's textures: the two the adapter has an
\* arm for, and one for every other variant.
TextureFormats == {"Rgba8Srgb", "R8", "Other"}

\* The application builds the texture that handle h will name, in the
\* format it chooses, before the engine registers it.
EngineTexture(h, format) ==
    /\ ~aborted
    /\ h \notin dom.textures \cup removed_ids
    /\ h \notin DOMAIN textures
    /\ formats[h] # format
    /\ formats' = [formats EXCEPT ![h] = format]
    /\ UNCHANGED <<textures, default_texture, vertices, indices, layout,
                   commands, ctx_textures, ctx_buffers, calls, dom,
                   removed_ids, aborted, op, removals_logged,
                   max_vertex_bytes, max_index_bytes, input_vars>>

EngineTextures ==
    \E h \in Handles, format \in TextureFormats : EngineTexture(h, format)

\* Paint calls on registries whose textures have any of the formats.
SpecFormats == Init /\ [][PaintTextures \/ EngineTextures]_vars

\* The events of the window, delivered in any order.
HandleEvent ==
    \/ ResizeEvent
    \/ MouseMotionEvent
    \/ MouseWheelEvent
    \/ MouseButtonDownEvent
    \/ MouseButtonUpEvent
    \/ CharEvent
    \/ KeyDownEvent
    \/ KeyUpEvent

SpecEvents == Init /\ [][HandleEvent]_vars

\* ========================================================== properties
\* The positions in cs of the calls named name.
CallsOf(cs, name) == {i \in DOMAIN cs : cs[i].op = name}

\* A paint call has returned (no panic) and is the latest operation.
Painted == op = "paint" /\ ~aborted

\* The vertices and indices a frame holds, summed over its meshes.
FrameVertices(frame) ==
    LET RECURSIVE Sum(_)
        Sum(i) == IF i = 0 THEN 0 ELSE frame[i].vertices + Sum(i - 1)
    IN Sum(Len(frame))

FrameIndices(frame) ==
    LET RECURSIVE Sum(_)
        Sum(i) == IF i = 0 THEN 0 ELSE Len(frame[i].indices) + Sum(i - 1)
    IN Sum(Len(frame))

\* The vertices of the meshes before the j-th.
VerticesBefore(frame, j) == FrameVertices(SubSeq(frame, 1, j - 1))

\* ------------------------------------------------------------------ C1
\* The command list has one entry per mesh of the frame, the i-th with the
\* i-th mesh's pipeline selector and clip rectangle.
CommandsMatch(cmds, frame) ==
    /\ Len(cmds) = Len(frame)
    /\ \A i \in DOMAIN frame :
           /\ cmds[i].pipeline = frame[i].pipeline
           /\ cmds[i].clip = frame[i].clip

\* C1 as stated: after every paint call on a frame with N meshes, N >= 0,
\* the stored command list has exactly N entries, the i-th carrying the i-th
\* mesh's pipeline selector and clip rectangle, none left from an earlier
\* frame.
C1_CommandsMatchEveryFrame == Painted => CommandsMatch(commands, dom.calls)

\* C1 amended: after a paint call on a frame with N >= 1 meshes the stored
\* command list has exactly N entries, the i-th carrying the i-th mesh's
\* pipeline selector and clip rectangle; a paint call on a frame with no
\* mesh leaves the stored command list as it was.
C1_CommandsMatchNonEmptyFrame ==
    [][(op' = "paint" /\ ~aborted') =>
          IF dom'.calls = <<>>
          THEN commands' = commands
          ELSE CommandsMatch(commands', dom'.calls)]_vars

\* A two-mesh frame painted after an earlier frame (the buffers were not
\* created by this call), its two commands differing in pipeline and clip.
C1_Witness ==
    /\ Painted
    /\ Len(dom.calls) = 2
    /\ Len(commands) = 2
    /\ commands[1].pipeline # commands[2].pipeline
    /\ commands[1].clip # commands[2].clip
    /\ CallsOf(calls, "new_buffer") = {}

\* ------------------------------------------------------------------ C2
\* C2: for a frame whose vertex count fits the u16 range, every index in the
\* index buffer equals the vertex count of the earlier meshes plus the local
\* index, and selects in the vertex buffer the vertex the local index
\* selected in its mesh.
C2_IndexRewrite ==
    (Painted /\ dom.calls # <<>> /\ FrameVertices(dom.calls) <= U16Range) =>
        \A j \in DOMAIN dom.calls :
            \A k \in DOMAIN dom.calls[j].indices :
                LET local == dom.calls[j].indices[k]
                    base == VerticesBefore(dom.calls, j)
                    global == ctx_buffers[indices].data[
                                  commands[j].index_range.start + k]
                IN /\ global = base + local
                   /\ VertexAt(ctx_buffers[vertices].data, global)
                          = <<j, local>>

\* A fitting two-mesh frame whose second mesh has indices shifted by a
\* base above 0.
C2_Witness ==
    /\ Painted
    /\ Len(dom.calls) = 2
    /\ FrameVertices(dom.calls) = U16Range
    /\ dom.calls[1].vertices > 0
    /\ \E k \in DOMAIN dom.calls[2].indices :
           /\ dom.calls[2].indices[k] > 0
           /\ ctx_buffers[indices].data[commands[2].index_range.start + k]
                  = dom.calls[1].vertices + dom.calls[2].indices[k]

\* ------------------------------------------------------------------ C3
\* C3: after every paint call, when every removal from the registry so far
\* was reported in an edit log, the mapping's keys are the registry's
\* handles.
C3_MappingKeysAreRegistry ==
    (Painted /\ removals_logged) => DOMAIN textures = dom.textures

\* A registered handle no edit mentions got its entry from this paint call.
C3_Witness ==
    /\ Painted
    /\ removals_logged
    /\ \E h \in dom.textures :
           /\ \A i \in DOMAIN dom.texture_edits : dom.texture_edits[i].id # h
           /\ h \in DOMAIN textures
           /\ \E i \in CallsOf(calls, "new_texture") :
                  calls[i].args = <<textures[h], h>>

\* ------------------------------------------------------------------ C4
\* The backend textures allocated and not deleted.
Allocated == {t \in DOMAIN ctx_textures : ctx_textures[t].deletes = 0}

\* C4 as stated: every allocated backend texture other than the default one
\* is the value of exactly one mapping entry.
C4_OneTexturePerHandle ==
    \A t \in Allocated \ {default_texture} :
        Cardinality({h \in DOMAIN textures : textures[h] = t}) = 1

\* ------------------------------------------------------------------ C5
\* Every delete_texture of cs comes before every apply_bindings and draw.
DeletesBeforeDraws(cs) ==
    \A i \in CallsOf(cs, "delete_texture") :
        \A k \in CallsOf(cs, "apply_bindings") \cup CallsOf(cs, "draw") : i < k

\* No apply_bindings of cs binds a texture that ct holds as deleted.
BindsLiveTextures(cs, ct) ==
    \A k \in CallsOf(cs, "apply_bindings") : ct[cs[k].args[3]].deletes = 0

\* C5: in a paint call the texture the mapping held for a handle reported
\* Removed is deleted in that call, every deletion comes before the call's
\* apply_bindings and draw calls, and no apply_bindings binds a deleted
\* texture.
C5_RemovedDeletedBeforeDraws ==
    [][(op' = "paint" /\ ~aborted') =>
          /\ \A i \in DOMAIN dom'.texture_edits :
                 LET e == dom'.texture_edits[i]
                 IN (e.change = "Removed" /\ e.id \in DOMAIN textures) =>
                        \E k \in CallsOf(calls', "delete_texture") :
                            calls'[k].args = <<textures[e.id]>>
          /\ DeletesBeforeDraws(calls')
          /\ BindsLiveTextures(calls', ctx_textures')]_vars

\* A paint call that deleted the texture of a removed handle and then drew
\* a mesh that names that handle.
C5_Witness ==
    /\ Painted
    /\ \E i \in DOMAIN dom.texture_edits :
           /\ dom.texture_edits[i].change = "Removed"
           /\ dom.calls # <<>>
           /\ dom.calls[1].texture = dom.texture_edits[i].id
    /\ CallsOf(calls, "delete_texture") # {}
    /\ CallsOf(calls, "draw") # {}

\* ------------------------------------------------------------------ C6
\* C6: after a paint call, a handle whose edit in that call's log is Added
\* or Modified, the registry holding it, is a key of the mapping; a handle
\* whose edit is Removed is not.
C6_LookupAfterEdit ==
    Painted =>
        \A i \in DOMAIN dom.texture_edits :
            LET e == dom.texture_edits[i]
            IN /\ (e.change \in {"Added", "Modified"} /\ e.id \in dom.textures)
                      => e.id \in DOMAIN textures
               /\ e.change = "Removed" => e.id \notin DOMAIN textures

\* A paint call that processed Removed for a handle the mapping held.
C6_Witness ==
    /\ Painted
    /\ \E i \in DOMAIN dom.texture_edits :
           /\ dom.texture_edits[i].change = "Removed"
           /\ dom.texture_edits[i].id \notin DOMAIN textures
           /\ \E t \in DOMAIN ctx_textures :
                  /\ ctx_textures[t].handle = dom.texture_edits[i].id
                  /\ \E k \in CallsOf(calls, "delete_texture") :
                         calls[k].args = <<t>>

\* ------------------------------------------------------------------ C7
\* C7 as stated: after a paint call that processes Removed(id), every
\* backend texture ever created for id has been deleted.
C7_NoTextureLeftAfterRemoved ==
    Painted =>
        \A i \in DOMAIN dom.texture_edits :
            dom.texture_edits[i].change = "Removed" =>
                \A t \in DOMAIN ctx_textures :
                    ctx_textures[t].handle = dom.texture_edits[i].id =>
                        ctx_textures[t].deletes > 0

\* ------------------------------------------------------------------ C8
\* C8: the capacity of the vertex buffer, and of the index buffer, never
\* decreases from one frame to the next and is, after every frame, at least
\* the largest byte size any frame so far required.
C8_CapacityMonotonic ==
    [][/\ ctx_buffers'[vertices'].size >= ctx_buffers[vertices].size
       /\ ctx_buffers'[indices'].size >= ctx_buffers[indices].size
       /\ ctx_buffers'[vertices'].size >= max_vertex_bytes'
       /\ ctx_buffers'[indices'].size >= max_index_bytes']_vars

\* A frame smaller than an earlier one was painted into both buffers.
C8_Witness ==
    /\ Painted
    /\ dom.calls # <<>>
    /\ max_vertex_bytes > FrameVertices(dom.calls) * VertexSize
    /\ max_index_bytes > FrameIndices(dom.calls) * IndexSize
    /\ CallsOf(calls, "buffer_update") # {}

\* ------------------------------------------------------------------ C9
\* The buffer `old` of the adapter before a paint call that required
\* `needed` bytes of it, `new` after: recreated only when needed exceeds the
\* capacity, and otherwise the same live buffer, overwritten with `data`.
GrowsOnlyWhenNeeded(old, new, needed) ==
    /\ (new # old \/ ~ctx_buffers'[old].live) => needed > ctx_buffers[old].size
    /\ needed <= ctx_buffers[old].size =>
           /\ new = old
           /\ ctx_buffers'[old].live
           /\ ctx_buffers'[old].size = ctx_buffers[old].size
           /\ \E k \in CallsOf(calls', "buffer_update") : calls'[k].args = <<old>>
           /\ \A k \in CallsOf(calls', "delete_buffer") : calls'[k].args # <<old>>

\* C9: a buffer is deleted and recreated in a frame only if the frame's
\* byte size for it exceeds its capacity, and is otherwise kept and
\* overwritten; separately for the vertex and the index buffer.
C9_ReallocOnlyWhenExceeded ==
    [][(op' = "paint" /\ ~aborted' /\ dom'.calls # <<>>) =>
          /\ GrowsOnlyWhenNeeded(vertices, vertices',
                                 FrameVertices(dom'.calls) * VertexSize)
          /\ GrowsOnlyWhenNeeded(indices, indices',
                                 FrameIndices(dom'.calls) * IndexSize)]_vars

\* A paint call that recreated the vertex buffer and kept the index buffer.
C9_Witness ==
    /\ Painted
    /\ \E k \in CallsOf(calls, "delete_buffer") :
           ctx_buffers[calls[k].args[1]].kind = "VertexBuffer"
    /\ \A k \in CallsOf(calls, "delete_buffer") :
           ctx_buffers[calls[k].args[1]].kind # "IndexBuffer"
    /\ \E k \in CallsOf(calls, "buffer_update") : calls[k].args = <<indices>>

\* ----------------------------------------------------------------- C10
\* The clip rectangle's intersection with the surface is degenerate.
Degenerate(clip, surface) ==
    clip.some /\ ScissorInvalid(ScissorOf(clip, surface), surface)

\* C10 as stated: a command with a known pipeline whose clip rectangle has a
\* degenerate intersection with the surface issues no draw call, whatever
\* the clip rectangles of the commands before it.
C10_DegenerateClipNeverDrawn ==
    (Painted /\ dom.calls # <<>>) =>
        \A i \in DOMAIN commands :
            (commands[i].pipeline \in {"Main", "Text"}
             /\ Degenerate(commands[i].clip, dom.surface_size)) =>
                \A k \in CallsOf(calls, "draw") :
                    calls[k].args[1] # commands[i].index_range.start

\* ------------------------------------------------- the submission log
\* The command's pipeline selector has an arm in paint's match.
Known(command) == command.pipeline \in {"Main", "Text"}

\* The commands before the i-th that have a known pipeline.
KnownBefore(cmds, i) == {j \in 1..(i - 1) : Known(cmds[j])}

\* The greatest element of a non-empty set of numbers.
SetMax(S) == CHOOSE x \in S : \A y \in S : y <= x

\* The clip rectangle last submitted before the i-th command: that of the
\* nearest earlier command with a known pipeline, none at the start.
PrevClip(cmds, i) ==
    IF KnownBefore(cmds, i) = {}
    THEN NoClip
    ELSE cmds[SetMax(KnownBefore(cmds, i))].clip

\* The position in cs of the r-th apply_pipeline call, 0 when there are
\* fewer.
PipelineCallAt(cs, r) ==
    LET at == {p \in CallsOf(cs, "apply_pipeline") :
                  Cardinality({q \in CallsOf(cs, "apply_pipeline") : q < p})
                      = r - 1}
    IN IF at = {} THEN 0 ELSE SetMax(at)

\* The calls issued for the i-th command, which has a known pipeline: those
\* after its apply_pipeline call and before the next one.
SegmentOf(cs, cmds, i) ==
    LET r == Cardinality(KnownBefore(cmds, i)) + 1
        from == PipelineCallAt(cs, r)
        next == PipelineCallAt(cs, r + 1)
    IN IF from = 0 THEN <<>>
       ELSE SubSeq(cs, from + 1, IF next = 0 THEN Len(cs) ELSE next - 1)

\* The draw call that covers the command's index range.
DrawOf(command) ==
    Call("draw", <<command.index_range.start,
                   command.index_range.end - command.index_range.start, 1>>)

\* ----------------------------------------------------------------- C11
\* C11 as stated: in a paint call that submits commands, the first command
\* with a known pipeline has an apply_scissor_rect call issued for it before
\* its draw call.
C11_FirstCommandSetsScissor ==
    (Painted /\ dom.calls # <<>>) =>
        \A i \in DOMAIN commands :
            (Known(commands[i]) /\ KnownBefore(commands, i) = {}) =>
                LET seg == SegmentOf(calls, commands, i)
                IN \A k \in CallsOf(seg, "draw") :
                       \E j \in CallsOf(seg, "apply_scissor_rect") : j < k

\* ----------------------------------------------------------------- C12
\* The draw calls of cs, in the order issued.
RECURSIVE DrawsIn(_)
DrawsIn(cs) ==
    IF cs = <<>> THEN <<>>
    ELSE IF cs[1].op = "draw" THEN <<cs[1]>> \o DrawsIn(Tail(cs))
    ELSE DrawsIn(Tail(cs))

\* The i-th command was not skipped: a draw call was issued in its segment.
Drawn(cs, cmds, i) ==
    Known(cmds[i]) /\ CallsOf(SegmentOf(cs, cmds, i), "draw") # {}

\* The draw calls of the commands from the i-th on that were not skipped.
RECURSIVE DrawsFor(_, _, _)
DrawsFor(cs, cmds, i) ==
    IF i > Len(cmds) THEN <<>>
    ELSE (IF Drawn(cs, cmds, i) THEN <<DrawOf(cmds[i])>> ELSE <<>>)
         \o DrawsFor(cs, cmds, i + 1)

\* C12: within a paint call the draw calls are, in order, one per command
\* that is not skipped, each over the command's index range with instance
\* count 1; a command with a known pipeline and a clip rectangle that is
\* absent or not degenerate is not skipped; and each draw call comes right
\* after an apply_bindings call of the vertex buffer, the index buffer and
\* the command's texture.
C12_DrawsFollowCommands ==
    (Painted /\ dom.calls # <<>>) =>
        /\ DrawsIn(calls) = DrawsFor(calls, commands, 1)
        /\ \A i \in DOMAIN commands :
               (Known(commands[i])
                /\ ~Degenerate(commands[i].clip, dom.surface_size)) =>
                   Drawn(calls, commands, i)
        /\ \A i \in DOMAIN commands :
               Known(commands[i]) =>
                   LET seg == SegmentOf(calls, commands, i)
                   IN \A k \in CallsOf(seg, "draw") :
                          /\ seg[k] = DrawOf(commands[i])
                          /\ k > 1
                          /\ seg[k - 1] =
                                 Call("apply_bindings",
                                      <<vertices, indices, commands[i].texture>>)

\* A frame of two drawn commands with different textures.
C12_Witness ==
    /\ Painted
    /\ Len(commands) = 2
    /\ commands[1].texture # commands[2].texture
    /\ Len(DrawsIn(calls)) = 2
    /\ DrawsIn(calls)[1].args[1] < DrawsIn(calls)[2].args[1]

\* ----------------------------------------------------------------- C13
\* C13: the texture of every mesh's draw command is the mapping's texture
\* for the mesh's handle when the mesh has a handle that is in the mapping
\* and the default texture otherwise; every mesh has its command, and a
\* paint call aborts only on an edit for a handle the registry lacks.
C13_CommandTexture ==
    /\ (Painted /\ dom.calls # <<>>) =>
           /\ Len(commands) = Len(dom.calls)
           /\ \A i \in DOMAIN dom.calls :
                  LET handle == dom.calls[i].texture
                  IN commands[i].texture =
                         IF handle # NoHandle /\ handle \in DOMAIN textures
                         THEN textures[handle]
                         ELSE default_texture
    /\ (op = "paint" /\ aborted) =>
           \E k \in DOMAIN dom.texture_edits :
               /\ dom.texture_edits[k].change \in {"Added", "Modified"}
               /\ dom.texture_edits[k].id \notin dom.textures

\* A mesh whose handle is not in the mapping was drawn with the default
\* texture.
C13_Witness ==
    /\ Painted
    /\ Len(dom.calls) = 1
    /\ dom.calls[1].texture # NoHandle
    /\ dom.calls[1].texture \notin DOMAIN textures
    /\ commands[1].texture = default_texture
    /\ \E k \in CallsOf(calls, "apply_bindings") :
           calls[k].args[3] = default_texture

\* ----------------------------------------------------------------- C14
\* C14 as stated: a paint call on a frame of exactly one mesh with pipeline
\* Main, no clip rectangle and no texture handle issues exactly one draw
\* call, binds the default texture for it, and sets the scissor to the full
\* surface before that draw call.
C14_SingleMeshFrame ==
    (Painted /\ dom.calls = <<Triangle(NoHandle, "Main", NoClip)>>) =>
        /\ Cardinality(CallsOf(calls, "draw")) = 1
        /\ \A k \in CallsOf(calls, "draw") :
               /\ k > 1
               /\ calls[k - 1].op = "apply_bindings"
               /\ calls[k - 1].args[3] = default_texture
               /\ \E j \in CallsOf(calls, "apply_scissor_rect") :
                      /\ j < k
                      /\ calls[j].args =
                             <<0, 0, dom.surface_size.x, dom.surface_size.y>>

\* ----------------------------------------------------------------- C15
\* The scissor size on one axis: the clip's extent p..p+s cut at the
\* surface's extent S.
ClampedExtent(p, s, S) == Min(p + s, S) - p

\* C15: for a command whose clip rectangle, of non-negative position p and
\* size s, is not the clip last submitted, the scissor is applied at p with
\* size min(p + s, S) - p per axis and the command is drawn; unless p
\* exceeds the surface size S on an axis or that width or height is 0, and
\* then no scissor is applied and no draw call is issued for the command.
C15_ScissorClamped ==
    (Painted /\ dom.calls # <<>>) =>
        \A i \in DOMAIN commands :
            LET clip == commands[i].clip
                S == dom.surface_size
                w == ClampedExtent(clip.x, clip.w, S.x)
                h == ClampedExtent(clip.y, clip.h, S.y)
                seg == SegmentOf(calls, commands, i)
            IN (Known(commands[i]) /\ clip.some
                /\ clip # PrevClip(commands, i)) =>
                   IF clip.x > S.x \/ clip.y > S.y \/ w = 0 \/ h = 0
                   THEN seg = <<>>
                   ELSE /\ Len(seg) = 3
                        /\ seg[1] = Call("apply_scissor_rect",
                                         <<clip.x, clip.y, w, h>>)
                        /\ seg[3] = DrawOf(commands[i])

\* The clip (700,500) size (200,200) was applied as (700,500) size (100,100)
\* on the 800 x 600 surface and the command with clip (900,100) size (50,50)
\* got no scissor and no draw call.
C15_Witness ==
    /\ Painted
    /\ dom.surface_size = [x |-> 800, y |-> 600]
    /\ Len(commands) = 2
    /\ commands[1].clip = Clip(700, 500, 200, 200)
    /\ commands[2].clip = Clip(900, 100, 50, 50)
    /\ Known(commands[1]) /\ Known(commands[2])
    /\ SegmentOf(calls, commands, 1)[1] =
           Call("apply_scissor_rect", <<700, 500, 100, 100>>)
    /\ SegmentOf(calls, commands, 2) = <<>>
    /\ Cardinality(CallsOf(calls, "draw")) = 1

\* ----------------------------------------------------------------- C16
\* C16: a paint call on a frame with no mesh leaves an entry in the mapping
\* for every handle of the registry, creates a texture for every Added
\* handle, deletes the texture and the entry of every Removed handle the
\* mapping held and updates the texture of every Modified handle of the
\* registry; it issues only texture calls (no buffer call, no
\* apply_pipeline, apply_scissor_rect, apply_bindings or draw) and leaves
\* the vertex and index buffers and their capacities as they were.
C16_EmptyFrame ==
    [][(op' = "paint" /\ ~aborted' /\ dom'.calls = <<>>) =>
          /\ dom'.textures \subseteq DOMAIN textures'
          /\ \A i \in DOMAIN dom'.texture_edits :
                 LET e == dom'.texture_edits[i]
                 IN /\ e.change = "Added" =>
                           \E k \in CallsOf(calls', "new_texture") :
                               calls'[k].args = <<textures'[e.id], e.id>>
                    /\ e.change = "Removed" =>
                           /\ e.id \notin DOMAIN textures'
                           /\ e.id \in DOMAIN textures =>
                                  \E k \in CallsOf(calls', "delete_texture") :
                                      calls'[k].args = <<textures[e.id]>>
                    /\ (e.change = "Modified" /\ e.id \in dom'.textures) =>
                           \E k \in CallsOf(calls', "texture_update") :
                               calls'[k].args = <<textures'[e.id], e.id>>
          /\ \A k \in DOMAIN calls' :
                 calls'[k].op \in {"new_texture", "delete_texture",
                                   "texture_update"}
          /\ vertices' = vertices
          /\ indices' = indices
          /\ ctx_buffers' = ctx_buffers]_vars

\* An empty frame, painted after a frame that had grown the buffers, made a
\* texture for a handle of the registry.
C16_Witness ==
    /\ Painted
    /\ dom.calls = <<>>
    /\ commands # <<>>
    /\ ctx_buffers[vertices].size > VertexSize
    /\ \E h \in dom.textures :
           \E k \in CallsOf(calls, "new_texture") :
               calls[k].args = <<textures[h], h>>

\* ----------------------------------------------------------------- C17
\* The pipeline object paint applies for a selector it knows.
KnownPipeline(command) ==
    IF command.pipeline = "Main" THEN main_pipeline ELSE text_pipeline

\* C17: in a paint call on a frame holding a command whose pipeline selector
\* is neither Main nor Text, paint does not abort; the calls of the
\* submission are those of the commands with a known pipeline, each led by
\* its apply_pipeline call, so the other commands issue no call and the
\* commands after them are submitted; no draw call covers the range of a
\* command with an unknown pipeline; and such a command does not change
\* last_clip: a drawn command whose clip differs from that of the nearest
\* earlier command with a known pipeline has its scissor applied, also when
\* commands with an unknown pipeline and its clip come in between.
C17_UnknownPipelineSkipped ==
    (op = "paint"
     /\ \E i \in DOMAIN dom.calls : ~Known(dom.calls[i])) =>
        /\ ~aborted
        /\ Len(commands) = Len(dom.calls)
        /\ Cardinality(CallsOf(calls, "apply_pipeline"))
               = Cardinality({i \in DOMAIN commands : Known(commands[i])})
        /\ \A k \in DOMAIN calls :
               calls[k].op \in {"apply_scissor_rect", "apply_bindings", "draw"}
                   => \E j \in CallsOf(calls, "apply_pipeline") : j < k
        /\ \A i \in DOMAIN commands :
               IF Known(commands[i])
               THEN LET r == Cardinality(KnownBefore(commands, i)) + 1
                        seg == SegmentOf(calls, commands, i)
                    IN /\ calls[PipelineCallAt(calls, r)].args
                              = <<KnownPipeline(commands[i])>>
                       /\ Len(seg) <= 3
                       /\ (commands[i].clip # PrevClip(commands, i)
                           /\ CallsOf(seg, "draw") # {}) =>
                              seg[1].op = "apply_scissor_rect"
               ELSE \A k \in CallsOf(calls, "draw") :
                        calls[k].args[1] # commands[i].index_range.start

\* A command with an unknown pipeline and the clip (700,500) size (200,200)
\* was passed over and the Main command after it, with the same clip, had
\* its scissor applied and was drawn.
C17_Witness ==
    /\ Painted
    /\ Len(commands) = 2
    /\ ~Known(commands[1])
    /\ Known(commands[2])
    /\ commands[1].clip = commands[2].clip
    /\ commands[2].clip.some
    /\ Cardinality(CallsOf(calls, "apply_pipeline")) = 1
    /\ CallsOf(SegmentOf(calls, commands, 2), "apply_scissor_rect") # {}
    /\ \E k \in CallsOf(calls, "draw") : calls[k] = DrawOf(commands[2])

\* ----------------------------------------------------------------- C18
\* The calls of cs that upload buffer contents or submit, which a repeated
\* frame repeats.
RECURSIVE FrameCalls(_)
FrameCalls(cs) ==
    IF cs = <<>> THEN <<>>
    ELSE IF cs[1].op \in {"buffer_update", "apply_pipeline",
                          "apply_scissor_rect", "apply_bindings", "draw"}
         THEN <<cs[1]>> \o FrameCalls(Tail(cs))
         ELSE FrameCalls(Tail(cs))

\* C18: a paint call on the frame the previous paint call painted (same
\* meshes, same registry, same surface) with an empty texture edit log
\* leaves the command list, the two buffers and their contents as the
\* previous call left them, and creates or deletes no texture and no
\* buffer.
C18_RepaintIsIdempotent ==
    [][(/\ op = "paint" /\ ~aborted
        /\ op' = "paint" /\ ~aborted'
        /\ dom'.calls = dom.calls
        /\ dom'.calls # <<>>
        /\ dom'.textures = dom.textures
        /\ dom'.surface_size = dom.surface_size
        /\ dom'.texture_edits = <<>>) =>
          /\ commands' = commands
          /\ vertices' = vertices
          /\ indices' = indices
          /\ ctx_buffers'[vertices'].data = ctx_buffers[vertices].data
          /\ ctx_buffers'[indices'].data = ctx_buffers[indices].data
          /\ textures' = textures
          /\ ctx_textures' = ctx_textures
          /\ \A k \in DOMAIN calls' :
                 calls'[k].op \notin {"new_texture", "delete_texture",
                                      "new_buffer", "delete_buffer"}
          /\ calls' = FrameCalls(calls)]_vars

\* A textured frame was painted with an empty edit log into buffers and
\* textures that an earlier paint call had made.
C18_Witness ==
    /\ Painted
    /\ Len(dom.calls) = 1
    /\ dom.texture_edits = <<>>
    /\ dom.calls[1].texture \in DOMAIN textures
    /\ commands[1].texture = textures[dom.calls[1].texture]
    /\ CallsOf(calls, "buffer_update") # {}
    /\ \A k \in DOMAIN calls :
           calls[k].op \notin {"new_texture", "delete_texture",
                               "new_buffer", "delete_buffer"}

\* ----------------------------------------------------------------- C19
\* C19 as stated: once the teardown has called drop_textures, every backend
\* texture created for a handle of the UI engine has been deleted exactly
\* once.
C19_TexturesDeletedOnce ==
    op = "drop_textures" =>
        \A t \in DOMAIN ctx_textures :
            ctx_textures[t].handle # NoHandle => ctx_textures[t].deletes = 1

\* ----------------------------------------------------------------- C20
\* The pipelines of the apply_pipeline calls of cs, in the order issued.
RECURSIVE PipelinesApplied(_)
PipelinesApplied(cs) ==
    IF cs = <<>> THEN <<>>
    ELSE IF cs[1].op = "apply_pipeline"
         THEN <<cs[1].args[1]>> \o PipelinesApplied(Tail(cs))
         ELSE PipelinesApplied(Tail(cs))

\* C20 as stated: within a paint call apply_pipeline is called for a command
\* only when its pipeline differs from that of the previous command, so no
\* two apply_pipeline calls in a row name the same pipeline.
C20_PipelineSwitchedOnChange ==
    (Painted /\ dom.calls # <<>>) =>
        LET applied == PipelinesApplied(calls)
        IN \A k \in 1..(Len(applied) - 1) : applied[k] # applied[k + 1]

\* ----------------------------------------------------------------- C21
\* C21: within a paint call an apply_scissor_rect call is issued for a
\* command only when its clip rectangle differs from last_clip, the clip of
\* the nearest earlier command with a known pipeline (none at the start),
\* and at most once for the command; so a run of commands with equal clips
\* causes at most one apply_scissor_rect call.
C21_ScissorOnlyOnClipChange ==
    (Painted /\ dom.calls # <<>>) =>
        /\ \A i \in DOMAIN commands :
               Known(commands[i]) =>
                   LET seg == SegmentOf(calls, commands, i)
                   IN /\ Cardinality(CallsOf(seg, "apply_scissor_rect")) <= 1
                      /\ CallsOf(seg, "apply_scissor_rect") # {} =>
                             commands[i].clip # PrevClip(commands, i)
        /\ Cardinality(CallsOf(calls, "apply_scissor_rect"))
               <= Cardinality({i \in DOMAIN commands :
                                  /\ Known(commands[i])
                                  /\ commands[i].clip # PrevClip(commands, i)})

\* Two commands in a row with the same clip rectangle were both drawn after
\* a single apply_scissor_rect call.
C21_Witness ==
    /\ Painted
    /\ Len(commands) = 2
    /\ Known(commands[1]) /\ Known(commands[2])
    /\ commands[1].clip.some
    /\ commands[1].clip = commands[2].clip
    /\ Cardinality(CallsOf(calls, "apply_scissor_rect")) = 1
    /\ Cardinality(CallsOf(calls, "draw")) = 2

\* ----------------------------------------------------------------- C22
\* C22: in every state the default texture is the one new() created, the
\* only backend texture made for no handle, still allocated (never
\* deleted), and not the value of any entry of the mapping.
C22_DefaultTextureLives ==
    /\ default_texture = 1
    /\ {t \in DOMAIN ctx_textures : ctx_textures[t].handle = NoHandle}
           = {default_texture}
    /\ ctx_textures[default_texture].deletes = 0
    /\ \A h \in DOMAIN textures : textures[h] # default_texture

\* drop_textures has deleted a texture of the mapping after a paint call
\* that drew with the default texture.
C22_Witness ==
    /\ op = "drop_textures"
    /\ \E k \in CallsOf(calls, "delete_texture") :
           ctx_textures[calls[k].args[1]].handle # NoHandle
    /\ \E i \in DOMAIN commands : commands[i].texture = default_texture
    /\ ctx_textures[default_texture].deletes = 0

\* ----------------------------------------------------------------- C23
\* C23 as stated: has_mouse_focus() is true exactly when the engine sank the
\* most recent mouse event (motion, wheel, button down or up, any button),
\* and false before any mouse event.
C23_MouseFocusIsLastSunk == has_mouse_focus = last_mouse_sunk

\* ----------------------------------------------------------------- C24
\* C24 as stated: has_keyboard_focus() is true exactly when the engine sank
\* the most recent keyboard event (char, key down or key up, any character
\* or key code), and false before any keyboard event.
C24_KeyboardFocusIsLastSunk == has_keyboard_focus = last_key_sunk

\* ----------------------------------------------------------------- C25
\* The intersection of the extent p..p+s with the surface's extent 0..S on
\* one axis: where it starts and how long it is.
IntersectFrom(p, s, S) == Max(p, 0)
IntersectLength(p, s, S) == Max(Min(p + s, S) - Max(p, 0), 0)

\* C25 as stated: for every command with a clip rectangle that is drawn
\* after its scissor is computed, the scissor applied is the intersection
\* of the clip rectangle with the surface rectangle, also when the clip's
\* origin is negative on an axis.
C25_ScissorIsIntersection ==
    (Painted /\ dom.calls # <<>>) =>
        \A i \in DOMAIN commands :
            LET clip == commands[i].clip
                S == dom.surface_size
                seg == SegmentOf(calls, commands, i)
            IN (Known(commands[i]) /\ clip.some
                /\ clip # PrevClip(commands, i)
                /\ CallsOf(seg, "draw") # {}) =>
                   seg[1] = Call("apply_scissor_rect",
                                 <<IntersectFrom(clip.x, clip.w, S.x),
                                   IntersectFrom(clip.y, clip.h, S.y),
                                   IntersectLength(clip.x, clip.w, S.x),
                                   IntersectLength(clip.y, clip.h, S.y)>>)

\* ----------------------------------------------------------------- C26
\* The buffer `old` was too small for `needed` bytes: it is deleted, then a
\* buffer of exactly `needed` bytes is created, then the data is uploaded
\* into the new buffer, which the adapter holds afterwards.
RecreatedAtSize(old, new, needed) ==
    needed > ctx_buffers[old].size =>
        /\ new # old
        /\ ~ctx_buffers'[old].live
        /\ ctx_buffers'[new].size = needed
        /\ \E k \in DOMAIN calls' :
               /\ k + 2 <= Len(calls')
               /\ calls'[k] = Call("delete_buffer", <<old>>)
               /\ calls'[k + 1] = Call("new_buffer", <<new, needed>>)
               /\ calls'[k + 2] = Call("buffer_update", <<new>>)

\* C26 as stated: when a frame's byte size for a buffer (elements times
\* element size) exceeds the buffer's capacity, the old buffer is deleted
\* and the new one is created with a capacity equal to that byte size,
\* before the frame's data is uploaded into it.
C26_RecreatedAtRequiredSize ==
    [][(op' = "paint" /\ ~aborted' /\ dom'.calls # <<>>) =>
          /\ RecreatedAtSize(vertices, vertices',
                             FrameVertices(dom'.calls) * VertexSize)
          /\ RecreatedAtSize(indices, indices',
                             FrameIndices(dom'.calls) * IndexSize)]_vars

\* ----------------------------------------------------------------- C27
\* The pipelines of the commands from the i-th on with a known pipeline.
RECURSIVE KnownPipelines(_, _)
KnownPipelines(cmds, i) ==
    IF i > Len(cmds) THEN <<>>
    ELSE (IF Known(cmds[i]) THEN <<PipelineOf(cmds[i].pipeline)>> ELSE <<>>)
         \o KnownPipelines(cmds, i + 1)

\* C27: within a paint call apply_pipeline is called once for every command
\* with a Main or Text pipeline, in order, also when the previous command
\* used the same pipeline; and every command that is drawn has its bindings
\* applied right before its draw call, so that the scissor is the only state
\* not applied again for a command like the one before it.
C27_PipelineAppliedPerCommand ==
    (Painted /\ dom.calls # <<>>) =>
        /\ PipelinesApplied(calls) = KnownPipelines(commands, 1)
        /\ \A i \in DOMAIN commands :
               Drawn(calls, commands, i) =>
                   LET seg == SegmentOf(calls, commands, i)
                   IN /\ Cardinality(CallsOf(seg, "apply_bindings")) = 1
                      /\ \A k \in CallsOf(seg, "draw") :
                             /\ k > 1
                             /\ seg[k - 1].op = "apply_bindings"

\* Two commands in a row with the same pipeline, clip and texture, both
\* drawn: the second has its pipeline and bindings applied again and no
\* scissor.
C27_Witness ==
    /\ Painted
    /\ Len(commands) = 2
    /\ Known(commands[1])
    /\ commands[1].pipeline = commands[2].pipeline
    /\ commands[1].clip = commands[2].clip
    /\ commands[1].texture = commands[2].texture
    /\ Drawn(calls, commands, 1)
    /\ Drawn(calls, commands, 2)
    /\ Len(PipelinesApplied(calls)) = 2
    /\ CallsOf(SegmentOf(calls, commands, 2), "apply_scissor_rect") = {}
    /\ CallsOf(SegmentOf(calls, commands, 2), "apply_bindings") # {}

\* ----------------------------------------------------------------- C28
\* The positions in cs of the calls that create, update or delete a backend
\* texture of handle id, given the backend textures ct.
TextureCallsFor(cs, ct, id) ==
    {k \in DOMAIN cs :
        \/ cs[k].op \in {"new_texture", "texture_update"} /\ cs[k].args[2] = id
        \/ cs[k].op = "delete_texture" /\ ct[cs[k].args[1]].handle = id}

\* C28: a paint call that runs to its end and processes Modified(id) for a
\* handle that the mapping held when it began and that the registry holds
\* issues one texture_update into the mapped backend texture and no other
\* texture call for id, and leaves the mapping entry as it was; Modified(id)
\* for a handle that neither the mapping nor the registry holds leaves the
\* mapping and the backend textures of id as they were and issues no
\* texture call for id.
C28_ModifiedUpdatesInPlace ==
    [][(op' = "paint" /\ ~aborted') =>
          \A i \in DOMAIN dom'.texture_edits :
              LET id == dom'.texture_edits[i].id
                  for == TextureCallsFor(calls', ctx_textures', id)
              IN dom'.texture_edits[i].change = "Modified" =>
                     /\ (id \in DOMAIN textures /\ id \in dom'.textures) =>
                            /\ id \in DOMAIN textures'
                            /\ textures'[id] = textures[id]
                            /\ Cardinality(for) = 1
                            /\ \A k \in for :
                                   calls'[k] = Call("texture_update",
                                                    <<textures[id], id>>)
                     /\ (id \notin DOMAIN textures /\ id \notin dom'.textures) =>
                            /\ id \notin DOMAIN textures'
                            /\ for = {}
                            /\ \A t \in DOMAIN ctx_textures :
                                   ctx_textures[t].handle = id =>
                                       ctx_textures'[t] = ctx_textures[t]]_vars

\* A paint call that processed Modified for a handle mapped by an earlier
\* paint call: the data went into the texture created then.
C28_Witness ==
    /\ Painted
    /\ ~aborted
    /\ \E i \in DOMAIN dom.texture_edits :
           LET id == dom.texture_edits[i].id
           IN /\ dom.texture_edits[i].change = "Modified"
              /\ id \in DOMAIN textures
              /\ CallsOf(calls, "new_texture") = {}
              /\ \E k \in CallsOf(calls, "texture_update") :
                     calls[k].args = <<textures[id], id>>

\* ----------------------------------------------------------------- C29
\* The accumulated vertex count c truncated to 16 bits.
TruncatedBase(c) == c % U16Range

\* No sum `base + index` of the frame reaches 2^16.
SumsFit(frame) ==
    \A j \in DOMAIN frame :
        \A k \in DOMAIN frame[j].indices :
            TruncatedBase(VerticesBefore(frame, j)) + frame[j].indices[k]
                < U16Range

\* The paint call ran to its end on the whole frame: every vertex and index
\* was uploaded, there is a command and a draw call per mesh, and each index
\* of a mesh with 2^16 or more vertices before it was uploaded as the value
\* Rewritten(base, local) of the truncated base and the local index.
UploadedTruncated(Rewritten(_, _)) ==
    /\ ~aborted
    /\ VertexCount(ctx_buffers[vertices].data) = FrameVertices(dom.calls)
    /\ Len(ctx_buffers[indices].data) = FrameIndices(dom.calls)
    /\ \E k \in CallsOf(calls, "buffer_update") : calls[k].args = <<vertices>>
    /\ \E k \in CallsOf(calls, "buffer_update") : calls[k].args = <<indices>>
    /\ Len(commands) = Len(dom.calls)
    /\ \A j \in DOMAIN commands :
           \E k \in CallsOf(calls, "draw") : calls[k] = DrawOf(commands[j])
    /\ \A j \in DOMAIN dom.calls :
           VerticesBefore(dom.calls, j) >= U16Range =>
               \A k \in DOMAIN dom.calls[j].indices :
                   ctx_buffers[indices].data[commands[j].index_range.start + k]
                       = Rewritten(TruncatedBase(VerticesBefore(dom.calls, j)),
                                   dom.calls[j].indices[k])

\* A paint call on a frame with a mesh that has 2^16 or more vertices
\* before it.
PastU16(frame) ==
    \E j \in DOMAIN frame : VerticesBefore(frame, j) >= U16Range

PlainSum(base, index) == base + index

\* C29 as stated: a frame with a mesh whose accumulated vertex count c
\* before it is 2^16 or more is neither rejected nor widened: it is uploaded
\* and submitted, and the indices of that mesh are (c mod 2^16) + local
\* index.
C29_TruncatedBaseAlwaysSubmitted ==
    (op = "paint" /\ PastU16(dom.calls)) => UploadedTruncated(PlainSum)

\* C29 amended: such a frame is uploaded and submitted with the indices
\* (c mod 2^16) + local index when no such sum of the frame reaches 2^16;
\* when one does, the paint call either panics at the sum or runs to its
\* end with the sums wrapped to 16 bits.
C29_TruncatedBaseSubmittedWhenSumsFit ==
    (op = "paint" /\ PastU16(dom.calls)) =>
        IF SumsFit(dom.calls)
        THEN UploadedTruncated(PlainSum)
        ELSE aborted \/ UploadedTruncated(RewriteIndex)

\* A painted frame whose second mesh has 2 * 2^16 - 2 vertices before it
\* and its index 1 uploaded as 2^16 - 1.
C29_Witness ==
    /\ Painted
    /\ Len(dom.calls) = 2
    /\ VerticesBefore(dom.calls, 2) = 2 * U16Range - 2
    /\ SumsFit(dom.calls)
    /\ \E k \in DOMAIN dom.calls[2].indices :
           /\ dom.calls[2].indices[k] = 1
           /\ ctx_buffers[indices].data[commands[2].index_range.start + k]
                  = U16Range - 1

\* ----------------------------------------------------------------- C30
\* C30: after every paint call on a frame with meshes, the index ranges of
\* the command list partition the uploaded index data in order: the first
\* starts at 0, each later one starts where the one before it ends, each is
\* as long as its mesh's index list, and the last ends at the number of
\* indices uploaded.
C30_IndexRangesPartition ==
    (Painted /\ dom.calls # <<>>) =>
        /\ Len(commands) = Len(dom.calls)
        /\ commands[1].index_range.start = 0
        /\ \A j \in DOMAIN commands :
               /\ commands[j].index_range.end - commands[j].index_range.start
                      = Len(dom.calls[j].indices)
               /\ j > 1 => commands[j].index_range.start
                               = commands[j - 1].index_range.end
        /\ commands[Len(commands)].index_range.end
               = Len(ctx_buffers[indices].data)

\* A painted frame of two meshes with index lists of different lengths: the
\* second range starts where the first ends and ends with the data.
C30_Witness ==
    /\ Painted
    /\ Len(commands) = 2
    /\ Len(dom.calls[1].indices) # Len(dom.calls[2].indices)
    /\ commands[1].index_range.end > 0
    /\ commands[2].index_range.start = commands[1].index_range.end
    /\ commands[2].index_range.end = Len(ctx_buffers[indices].data)
    /\ commands[2].index_range.end > commands[2].index_range.start

\* ----------------------------------------------------------------- C32
\* The engine's key code of a letter.
KeyOfLetter(letter) == "Key" \o letter

\* C32 as stated: a key event for a letter key A..Z is forwarded with the
\* engine's key code of the same letter, and no other letter key is mapped
\* to the key code forwarded, so that the mapping of the letter keys is
\* injective.
C32_LetterKeysKeepTheirLetter ==
    (event.handler \in {"key_down_event", "key_up_event"}
     /\ event.arg \in LetterKeys) =>
        /\ event.forwarded = KeyOfLetter(event.arg)
        /\ \A other \in LetterKeys \ {event.arg} :
               miniquad_key_to_yakui(other) # event.forwarded

\* ----------------------------------------------------------------- C31
\* The engine's format has an arm in resolve_texture_format.
Supported(format) == format \in {"Rgba8Srgb", "R8"}

\* The backend format the claim names for a supported format.
BackendFormat(format) == IF format = "Rgba8Srgb" THEN "RGBA8" ELSE "Alpha"

\* C31: a handle whose texture has a format other than Rgba8Srgb and R8
\* never has a backend texture nor a mapping entry, and a paint call on a
\* registry that holds it is aborted; every backend texture made for a
\* handle has the format RGBA8 for Rgba8Srgb and Alpha for R8, a paint call
\* that is not aborted has mapped every registered handle, and a paint call
\* on a registry of supported formats only is not aborted unless an edit
\* names a handle the registry does not hold.
C31_UnsupportedFormatAborts ==
    /\ \A h \in Handles :
           ~Supported(formats[h]) =>
               /\ h \notin DOMAIN textures
               /\ \A t \in DOMAIN ctx_textures : ctx_textures[t].handle # h
               /\ \A k \in CallsOf(calls, "new_texture") : calls[k].args[2] # h
               /\ (op = "paint" /\ h \in dom.textures) => aborted
    /\ \A t \in DOMAIN ctx_textures :
           ctx_textures[t].handle # NoHandle =>
               /\ Supported(formats[ctx_textures[t].handle])
               /\ ctx_textures[t].format
                      = BackendFormat(formats[ctx_textures[t].handle])
    /\ Painted => dom.textures \subseteq DOMAIN textures
    /\ (op = "paint" /\ aborted) =>
           \/ \E h \in dom.textures : ~Supported(formats[h])
           \/ \E i \in DOMAIN dom.texture_edits :
                  /\ dom.texture_edits[i].change \in {"Added", "Modified"}
                  /\ dom.texture_edits[i].id \notin dom.textures

\* A paint call was aborted on a registry holding a texture of another
\* format, with no edit that could have panicked.
C31_Witness ==
    /\ op = "paint"
    /\ aborted
    /\ \E h \in dom.textures : formats[h] = "Other"
    /\ \A i \in DOMAIN dom.texture_edits :
           dom.texture_edits[i].id \in dom.textures
    /\ CallsOf(calls, "new_texture") = {}

====
